---- MODULE Spec2Model ----
(***************************************************************************)
(* Model of src/ts/utils/grid.ts: the dense containers Grid2D<T> and       *)
(* Grid3D<T extends number>.                                               *)
(*                                                                         *)
(* A grid object is a record of its fields.  The private array #data is a  *)
(* function from the JavaScript indices 0..length-1 to cell values, with   *)
(* JavaScript's array semantics: a write past the end grows the array and  *)
(* leaves holes, a read outside the array yields undefined.                *)
(*                                                                         *)
(* Cell values are integers.  The numbers a caller stores are >= 0; the    *)
(* three JavaScript values that are not such numbers are encoded below 0.  *)
(***************************************************************************)
EXTENDS Integers, Sequences, FiniteSets

VARIABLES
    grid,       \* the Grid2D object under test
    flat,       \* the same calls applied to a Grid2D laid out with stride = width
    cube,       \* the Grid3D object under test
    written,    \* history: coordinate -> value of the most recent in-range set
    call,       \* history: the last call, [name, args, res, ref]: res is what it
                \* returned on grid or cube, ref what it returned on flat
    pre,        \* history: the object as it was before the last call
    steps       \* number of mutating calls made so far

vars == <<grid, flat, cube, written, call, pre, steps>>

----------------------------------------------------------------------------
(* Bounds of the model.                                                    *)

\* Grid2D shapes of the access specification: width*height <= MaxCells.
MaxCells == 6
\* Grid2D shapes of the line and search specifications: width*height <= MaxSmallCells.
MaxSmallCells == 4
\* Number of mutating calls in one behaviour.
MaxCalls == 2
\* Grid2D shapes of the view specification: width, height <= MaxSide.
MaxSide == 4
\* Grid3D shapes: width*height*depth <= MaxCells3.
MaxCells3 == 8
\* Number of mutating Grid3D calls in one behaviour.
MaxCalls3 == 2

----------------------------------------------------------------------------
(* JavaScript values and arrays.                                           *)

\* `undefined`: the default fillValue, and what `return;` yields.
Undefined == -1
\* NaN: the result of undefined++ .
NaN == -2
\* A hole of a sparse array (an index below length that was never written).
Hole == -3

Max(a, b) == IF a > b THEN a ELSE b
Min(a, b) == IF a < b THEN a ELSE b
Abs(a) == IF a < 0 THEN 0 - a ELSE a

\* new Array(n).fill(v)
ArrayFill(n, v) == [i \in 0..(n - 1) |-> v]

ArrayLength(a) == Cardinality(DOMAIN a)

\* a[i] as an rvalue: undefined outside the array and at a hole.
ArrayRead(a, i) ==
    IF i \in DOMAIN a /\ a[i] # Hole THEN a[i] ELSE Undefined

\* a[i] = v.  An index past the end grows the array, leaving holes; a negative
\* index creates a plain property, which no array method and no index >= 0 reads.
ArrayWrite(a, i, v) ==
    IF i < 0 THEN a
    ELSE [j \in 0..Max(ArrayLength(a) - 1, i) |->
            IF j = i THEN v
            ELSE IF j \in DOMAIN a THEN a[j] ELSE Hole]

\* v++ on a cell: a number is incremented, undefined and NaN become NaN.
PostIncrement(v) == IF v >= 0 THEN v + 1 ELSE NaN

\* A predicate (value: T) => boolean is modelled by the set of values it accepts.
RECURSIVE FilterFrom(_, _, _)
FilterFrom(a, accepts, i) ==
    IF i >= ArrayLength(a) THEN <<>>
    ELSE (IF a[i] # Hole /\ a[i] \in accepts THEN <<a[i]>> ELSE <<>>)
         \o FilterFrom(a, accepts, i + 1)

\* Array.prototype.filter: the accepted elements in index order, holes skipped.
ArrayFilter(a, accepts) == FilterFrom(a, accepts, 0)

\* Array.prototype.findIndex: the first index whose element is accepted (a hole
\* is visited as undefined), -1 when there is none.
ArrayFindIndex(a, accepts) ==
    LET hits == {i \in DOMAIN a : ArrayRead(a, i) \in accepts}
    IN  IF hits = {} THEN 0 - 1
        ELSE CHOOSE i \in hits : \A j \in hits : i <= j

\* range(a, b) of ./range: the inclusive integer range a..b as a sequence.
range(a, b) == [k \in 1..(b - a + 1) |-> a + k - 1]

----------------------------------------------------------------------------
(* Grid2D<T>                                                               *)

\* constructor(height, width, fillValue = undefined)
Grid2D(height, width, fillValue) ==
    LET offset == Max(height, width)
        size   == offset * offset
    IN  [height |-> height, width |-> width, offset |-> offset, size |-> size,
         data |-> ArrayFill(size, fillValue)]

Grid2D_get(g, x, y) ==
    IF x < 0 \/ x > g.width - 1 THEN Undefined
    ELSE IF y < 0 \/ y > g.height - 1 THEN Undefined
    ELSE ArrayRead(g.data, x + y * g.offset)

Grid2D_set_noStride(g, x, y, value) ==
    IF x < 0 \/ x > g.width - 1 THEN g
    ELSE IF y < 0 \/ y > g.height - 1 THEN g
    ELSE [g EXCEPT !.data = ArrayWrite(g.data, x + y, value)]

Grid2D_set_offByOne(g, x, y, value) ==
    IF x < 0 \/ x > g.width THEN g
    ELSE IF y < 0 \/ y > g.height THEN g
    ELSE [g EXCEPT !.data = ArrayWrite(g.data, x + y * g.offset, value)]

Grid2D_set(g, x, y, value) ==
    IF x < 0 \/ x > g.width - 1 THEN g
    ELSE IF y < 0 \/ y > g.height - 1 THEN g
    ELSE [g EXCEPT !.data = ArrayWrite(g.data, x + y * g.offset, value)]

\* static parse(input): input is a sequence of rows, input[y + 1][x + 1] being
\* the source's input[y][x]; the two loops run y outermost.
RECURSIVE ParseFrom(_, _, _, _)
ParseFrom(g, input, x, y) ==
    IF y >= Len(input) THEN g
    ELSE IF x >= Len(input[1]) THEN ParseFrom(g, input, 0, y + 1)
    ELSE ParseFrom(Grid2D_set(g, x, y, input[y + 1][x + 1]), input, x + 1, y)

Grid2D_parse(input) ==
    LET yDim == Len(input)
        xDim == Len(input[1])
    IN  ParseFrom(Grid2D(yDim, xDim, Undefined), input, 0, 0)


\* increment(x, y): no bounds check.
Grid2D_increment(g, x, y) ==
    LET idx == x + y * g.offset
    IN  [g EXCEPT !.data = ArrayWrite(g.data, idx, PostIncrement(ArrayRead(g.data, idx)))]

slope(start, end) == IF start = end THEN 0 ELSE (IF start > end THEN 0 - 1 ELSE 1)

\* The loop of incrementLine from iteration i on.
RECURSIVE LineFrom(_, _, _, _, _, _, _)
LineFrom(g, x1, y1, dx, dy, length, i) ==
    IF i > length THEN g
    ELSE LineFrom(Grid2D_increment(g, x1 + i * dx, y1 + i * dy),
                  x1, y1, dx, dy, length, i + 1)

Grid2D_incrementLine_exclusive(g, x1, y1, x2, y2) ==
    LET dx     == slope(x1, x2)
        dy     == slope(y1, y2)
        length == Max(Abs(x1 - x2), Abs(y1 - y2))
    IN  LineFrom(g, x1, y1, dx, dy, length - 1, 0)

Grid2D_incrementLine(g, x1, y1, x2, y2) ==
    LET dx     == slope(x1, x2)
        dy     == slope(y1, y2)
        length == Max(Abs(x1 - x2), Abs(y1 - y2))
    IN  LineFrom(g, x1, y1, dx, dy, length, 0)

Grid2D_filter(g, predicate) == ArrayFilter(g.data, predicate)

Grid2D_count(g, predicate) == Len(Grid2D_filter(g, predicate))

Grid2D_find(g, predicate) ==
    LET idx == ArrayFindIndex(g.data, predicate)
        y   == idx \div g.offset
        x   == idx - y * g.offset
    IN  <<x, y>>

Grid2D_findValue(g, value) == Grid2D_find(g, {value})

\* The loop of findAll from index idx on.
RECURSIVE FindAllFrom(_, _, _)
FindAllFrom(g, predicate, idx) ==
    IF idx >= g.size THEN <<>>
    ELSE (IF ArrayRead(g.data, idx) \in predicate
          THEN LET y == idx \div g.offset
                   x == idx - y * g.offset
               IN  << <<x, y>> >>
          ELSE <<>>)
         \o FindAllFrom(g, predicate, idx + 1)

Grid2D_findAll(g, predicate) == FindAllFrom(g, predicate, 0)

Grid2D_adjacent_inclusive(g, x, y) ==
    (IF x > 0 THEN << <<x - 1, y>> >> ELSE <<>>)
    \o (IF x < g.width THEN << <<x + 1, y>> >> ELSE <<>>)
    \o (IF y > 0 THEN << <<x, y - 1>> >> ELSE <<>>)
    \o (IF y < g.height THEN << <<x, y + 1>> >> ELSE <<>>)

Grid2D_adjacent(g, x, y) ==
    (IF x > 0 THEN << <<x - 1, y>> >> ELSE <<>>)
    \o (IF x < g.width - 1 THEN << <<x + 1, y>> >> ELSE <<>>)
    \o (IF y > 0 THEN << <<x, y - 1>> >> ELSE <<>>)
    \o (IF y < g.height - 1 THEN << <<x, y + 1>> >> ELSE <<>>)

Grid2D_horizontals(g) ==
    LET ys == range(0, g.height - 1)
        xs == range(0, g.width - 1)
    IN  [i \in 1..Len(ys) |-> [j \in 1..Len(xs) |-> Grid2D_get(g, xs[j], ys[i])]]

Grid2D_verticals(g) ==
    LET xs == range(0, g.width - 1)
        ys == range(0, g.height - 1)
    IN  [i \in 1..Len(xs) |-> [j \in 1..Len(ys) |-> Grid2D_get(g, xs[i], ys[j])]]

\* diagIdx < numDiags / 2 is a comparison of reals: 2 * diagIdx < numDiags.
Grid2D_diagonals(g) ==
    LET numDiags      == g.width + g.height - 2
        maxDiagLength == Min(g.width, g.height)
        diagIdxs      == range(0, numDiags)
    IN  [i \in 1..Len(diagIdxs) |->
            LET diagIdx    == diagIdxs[i]
                diagLength == Min(maxDiagLength,
                                  IF 2 * diagIdx < numDiags
                                  THEN diagIdx + 1
                                  ELSE numDiags - diagIdx + 1)
                startX == IF diagIdx < g.height THEN 0 ELSE diagIdx - g.height + 1
                startY == IF diagIdx < g.height THEN g.height - diagIdx - 1 ELSE 0
                idxs   == range(0, diagLength - 1)
            IN  [j \in 1..Len(idxs) |-> Grid2D_get(g, startX + idxs[j], startY + idxs[j])]]

Grid2D_antiDiagonals(g) ==
    LET numDiags      == g.width + g.height - 2
        maxDiagLength == Min(g.width, g.height)
        diagIdxs      == range(0, numDiags)
    IN  [i \in 1..Len(diagIdxs) |->
            LET diagIdx    == diagIdxs[i]
                diagLength == Min(maxDiagLength,
                                  IF 2 * diagIdx < numDiags
                                  THEN diagIdx + 1
                                  ELSE numDiags - diagIdx + 1)
                startX == IF diagIdx < g.width THEN diagIdx ELSE g.width - 1
                startY == IF diagIdx < g.width THEN 0 ELSE diagIdx - g.height + 1
                idxs   == range(0, diagLength - 1)
            IN  [j \in 1..Len(idxs) |-> Grid2D_get(g, startX - idxs[j], startY + idxs[j])]]

----------------------------------------------------------------------------
(* Grid3D<T extends number>                                                *)

\* constructor(height, width, depth, fillValue = 0)
Grid3D(height, width, depth, fillValue) ==
    LET size == height * width * depth
    IN  [height |-> height, width |-> width, depth |-> depth, size |-> size,
         data |-> ArrayFill(size, fillValue),
         yMod |-> height, zMod |-> height * width]

Grid3D_get(c, x, y, z) == ArrayRead(c.data, x + y * c.yMod + z * c.zMod)

Grid3D_set(c, x, y, z, value) ==
    [c EXCEPT !.data = ArrayWrite(c.data, x + y * c.yMod + z * c.zMod, value)]

\* this.#data[x + y * this.#yMod, z * this.#zMod]++ : the comma operator
\* evaluates and discards its left operand; the index is z * #zMod.
Grid3D_increment(c, x, y, z) ==
    LET idx == z * c.zMod
    IN  [c EXCEPT !.data = ArrayWrite(c.data, idx, PostIncrement(ArrayRead(c.data, idx)))]

\* The three nested loops of setCube, from (x, y, z) on; z runs innermost.
RECURSIVE CubeFrom(_, _, _, _, _, _, _, _, _, _)
CubeFrom(c, x, y, z, y1, z1, x2, y2, z2, value) ==
    IF x > x2 THEN c
    ELSE IF y > y2 THEN CubeFrom(c, x + 1, y1, z1, y1, z1, x2, y2, z2, value)
    ELSE IF z > z2 THEN CubeFrom(c, x, y + 1, z1, y1, z1, x2, y2, z2, value)
    ELSE CubeFrom(Grid3D_set(c, x, y, z, value), x, y, z + 1, y1, z1, x2, y2, z2, value)

Grid3D_setCube(c, x1, y1, z1, x2, y2, z2, value) ==
    CubeFrom(c, x1, y1, z1, y1, z1, x2, y2, z2, value)

Grid3D_filter(c, predicate) == ArrayFilter(c.data, predicate)

Grid3D_count(c, predicate) == Len(Grid3D_filter(c, predicate))

----------------------------------------------------------------------------
(* Inputs and helpers shared by the specifications.                        *)

\* <<height, width>> of the Grid2D objects constructed.
Shapes == {s \in (1..MaxCells) \X (1..MaxCells) : s[1] * s[2] <= MaxCells}

\* The in-range coordinates <<x, y>> of a Grid2D.
Cells(g) == (0..(g.width - 1)) \X (0..(g.height - 1))

\* Coordinates offered to get and set: in range and just outside, on every side.
Coords(g) == ((0 - 1)..g.width) \X ((0 - 1)..g.height)

\* The objects a specification does not use.
NoGrid == Grid2D(1, 1, Undefined)
NoCube == Grid3D(1, 1, 1, 0)

\* The record of a call: its name, its arguments, what it returned.
Called(name, args, res) == [name |-> name, args |-> args, res |-> res, ref |-> Undefined]

Void(name, args) == Called(name, args, Undefined)

----------------------------------------------------------------------------
(* SpecAccess: a Grid2D driven by set and read by get.                     *)

InitAccess ==
    \E s \in Shapes, fillValue \in {Undefined, 0} :
        /\ grid = Grid2D(s[1], s[2], fillValue)
        /\ flat = NoGrid
        /\ cube = NoCube
        /\ written = [p \in Cells(grid) |-> fillValue]
        /\ call = Void("new", <<s[1], s[2], fillValue>>)
        /\ pre = grid
        /\ steps = 0

Set ==
    \E p \in Coords(grid), value \in {1, 2} :
        /\ steps < MaxCalls
        /\ grid' = Grid2D_set(grid, p[1], p[2], value)
        /\ written' = IF p \in DOMAIN written
                      THEN [written EXCEPT ![p] = value] ELSE written
        /\ call' = Void("set", <<p[1], p[2], value>>)
        /\ pre' = grid
        /\ steps' = steps + 1
        /\ UNCHANGED <<flat, cube>>

Get ==
    \E p \in Coords(grid) :
        /\ call' = Called("get", p, Grid2D_get(grid, p[1], p[2]))
        /\ pre' = grid
        /\ UNCHANGED <<grid, flat, cube, written, steps>>

NextAccess == Set \/ Get

SpecAccess == InitAccess /\ [][NextAccess]_vars

\* C1: get(x, y) at an in-range coordinate returns the value of the most recent
\* set made at exactly (x, y), or the fill value if there was none; an in-range
\* set(x, y, v) makes get(x, y) return v and changes get at no other in-range
\* coordinate.
C1_SetGetRoundTrip ==
    /\ \A p \in Cells(grid) : Grid2D_get(grid, p[1], p[2]) = written[p]
    /\ (call.name = "get" /\ call.args \in Cells(grid)) => call.res = written[call.args]
    /\ (call.name = "set" /\ <<call.args[1], call.args[2]>> \in Cells(grid)) =>
          /\ Grid2D_get(grid, call.args[1], call.args[2]) = call.args[3]
          /\ \A q \in Cells(grid) \ {<<call.args[1], call.args[2]>>} :
                Grid2D_get(grid, q[1], q[2]) = Grid2D_get(pre, q[1], q[2])

\* C1's case: on a grid that is not square, a cell set before is set again to
\* another value while a different cell keeps the value it was set to.
C1_Witness ==
    /\ call.name = "set"
    /\ grid.width # grid.height
    /\ <<call.args[1], call.args[2]>> \in Cells(grid)
    /\ Grid2D_get(pre, call.args[1], call.args[2]) = 1
    /\ Grid2D_get(grid, call.args[1], call.args[2]) = 2
    /\ steps = 2

\* C2: out of range, get returns the absent value and set leaves the whole
\* object, padding cells of the backing store included, as it was.
C2_OutOfRangeNoOp ==
    /\ (call.name = "get" /\ call.args \notin Cells(grid)) => call.res = Undefined
    /\ (call.name = "set" /\ <<call.args[1], call.args[2]>> \notin Cells(grid)) =>
          grid = pre

\* C2's case: a set at x = width on a grid higher than wide, whose linear
\* address x + y * stride is a padding cell inside the backing store.
C2_Witness ==
    /\ call.name = "set"
    /\ call.args[1] = grid.width
    /\ call.args[2] \in 0..(grid.height - 1)
    /\ grid.width < grid.height
    /\ call.args[1] + call.args[2] * grid.offset < ArrayLength(grid.data)
    /\ steps = 2

----------------------------------------------------------------------------
(* SpecViews: adjacency and the diagonal views of a parsed Grid2D.         *)

\* A source array of yDim rows and xDim columns whose cells are all different:
\* input[y][x] = x + y * xDim.
Labelled(yDim, xDim) == [r \in 1..yDim |-> [c \in 1..xDim |-> (c - 1) + (r - 1) * xDim]]

InitViews ==
    \E yDim \in 1..MaxSide, xDim \in 1..MaxSide :
        /\ grid = Grid2D_parse(Labelled(yDim, xDim))
        /\ flat = NoGrid
        /\ cube = NoCube
        /\ written = [p \in Cells(grid) |-> p[1] + p[2] * xDim]
        /\ call = Void("parse", <<yDim, xDim>>)
        /\ pre = grid
        /\ steps = 0

Adjacent ==
    \E p \in Cells(grid) :
        /\ call' = Called("adjacent", p, Grid2D_adjacent(grid, p[1], p[2]))
        /\ pre' = grid
        /\ UNCHANGED <<grid, flat, cube, written, steps>>

Diagonals ==
    /\ call' = Called("diagonals", <<>>, Grid2D_diagonals(grid))
    /\ pre' = grid
    /\ UNCHANGED <<grid, flat, cube, written, steps>>

AntiDiagonals ==
    /\ call' = Called("antiDiagonals", <<>>, Grid2D_antiDiagonals(grid))
    /\ pre' = grid
    /\ UNCHANGED <<grid, flat, cube, written, steps>>

NextViews == Adjacent \/ Diagonals \/ AntiDiagonals

SpecViews == InitViews /\ [][NextViews]_vars

RECURSIVE Concat(_)
Concat(seqs) == IF seqs = <<>> THEN <<>> ELSE Head(seqs) \o Concat(Tail(seqs))

\* The values of `entries` taken together are the values of the in-range cells
\* of the grid, each cell once (the cells of a Labelled grid all differ), and
\* none comes from a read outside the grid.
Partitions(entries) ==
    LET all == Concat(entries)
    IN  /\ Len(all) = grid.width * grid.height
        /\ {all[k] : k \in 1..Len(all)} = {written[p] : p \in Cells(grid)}

\* C3: the entries of diagonals() taken together visit exactly the
\* width*height in-range cells, each once, and so do the entries of
\* antiDiagonals(); no entry reads outside the grid.
C3_DiagonalViewsPartition ==
    call.name \in {"diagonals", "antiDiagonals"} => Partitions(call.res)

\* The half of C3 about diagonals() alone.
DiagonalsPartition ==
    call.name = "diagonals" => Partitions(call.res)

\* The half of C3 about antiDiagonals(), on square grids alone.
AntiDiagonalsPartitionSquare ==
    (call.name = "antiDiagonals" /\ grid.width = grid.height) => Partitions(call.res)

IsCorner(g, p) == p[1] \in {0, g.width - 1} /\ p[2] \in {0, g.height - 1}

IsInterior(g, p) == 0 < p[1] /\ p[1] < g.width - 1 /\ 0 < p[2] /\ p[2] < g.height - 1

\* The four neighbours of p in the order left, right, up, down, those outside
\* the grid left out.
NeighboursInOrder(g, p) ==
    LET InGrid(q) == q \in Cells(g)
    IN  SelectSeq(<< <<p[1] - 1, p[2]>>, <<p[1] + 1, p[2]>>,
                     <<p[1], p[2] - 1>>, <<p[1], p[2] + 1>> >>, InGrid)

\* C4 as stated: adjacent(x, y) returns in-range points only, in the order
\* left, right, up, down, exactly 4 for an interior cell and exactly 2 for a
\* corner cell, for every grid of positive width and height.
C4_AdjacentAsStated ==
    call.name = "adjacent" =>
        /\ call.res = NeighboursInOrder(grid, call.args)
        /\ \A k \in 1..Len(call.res) : call.res[k] \in Cells(grid)
        /\ IsInterior(grid, call.args) => Len(call.res) = 4
        /\ IsCorner(grid, call.args) => Len(call.res) = 2

\* C4 amended: as stated, the corner count holding for grids of width >= 2 and
\* height >= 2; a corner of a grid one cell wide or high has fewer neighbours.
C4_Adjacent ==
    call.name = "adjacent" =>
        /\ call.res = NeighboursInOrder(grid, call.args)
        /\ \A k \in 1..Len(call.res) : call.res[k] \in Cells(grid)
        /\ IsInterior(grid, call.args) => Len(call.res) = 4
        /\ (IsCorner(grid, call.args) /\ grid.width >= 2 /\ grid.height >= 2) =>
              Len(call.res) = 2

\* C4's case: adjacent at the bottom-right corner of a grid that is not square
\* and at least two cells each way returns its left and upper neighbour.
C4_Witness ==
    /\ call.name = "adjacent"
    /\ grid.width >= 2 /\ grid.height >= 2 /\ grid.width # grid.height
    /\ call.args = <<grid.width - 1, grid.height - 1>>
    /\ call.res = << <<grid.width - 2, grid.height - 1>>, <<grid.width - 1, grid.height - 2>> >>

----------------------------------------------------------------------------
(* SpecLine: a zero-filled numeric Grid2D painted by increment and         *)
(* incrementLine.  Neither checks its coordinates: the endpoints offered   *)
(* are in range, or in range once x and y are exchanged.                   *)

SmallShapes ==
    {s \in (1..MaxSmallCells) \X (1..MaxSmallCells) : s[1] * s[2] <= MaxSmallCells}

InitLine ==
    \E s \in SmallShapes :
        /\ grid = Grid2D(s[1], s[2], 0)
        /\ flat = NoGrid
        /\ cube = NoCube
        /\ written = <<>>
        /\ call = Void("new", <<s[1], s[2], 0>>)
        /\ pre = grid
        /\ steps = 0

Increment ==
    \E p \in Cells(grid) :
        /\ steps < MaxCalls
        /\ grid' = Grid2D_increment(grid, p[1], p[2])
        /\ call' = Void("increment", p)
        /\ pre' = grid
        /\ steps' = steps + 1
        /\ UNCHANGED <<flat, cube, written>>

\* Endpoints offered to incrementLine.
LineEnds(g) == Cells(g) \cup {<<p[2], p[1]>> : p \in Cells(g)}

IncrementLine ==
    \E p1 \in LineEnds(grid), p2 \in LineEnds(grid) :
        /\ steps < MaxCalls
        /\ grid' = Grid2D_incrementLine(grid, p1[1], p1[2], p2[1], p2[2])
        /\ call' = Void("incrementLine", <<p1[1], p1[2], p2[1], p2[2]>>)
        /\ pre' = grid
        /\ steps' = steps + 1
        /\ UNCHANGED <<flat, cube, written>>

NextLine == Increment \/ IncrementLine

SpecLine == InitLine /\ [][NextLine]_vars

Sign(a) == IF a > 0 THEN 1 ELSE IF a < 0 THEN 0 - 1 ELSE 0

\* Horizontal, vertical or exactly 45 degrees.
IsStraight(x1, y1, x2, y2) == x1 = x2 \/ y1 = y2 \/ Abs(x1 - x2) = Abs(y1 - y2)

\* The cells (x1 + i*sx, y1 + i*sy), i in 0..max(|x1-x2|, |y1-y2|).
Path(x1, y1, x2, y2) ==
    {<<x1 + i * Sign(x2 - x1), y1 + i * Sign(y2 - y1)>> :
        i \in 0..Max(Abs(x1 - x2), Abs(y1 - y2))}

\* Object `after` is object `before` with each cell of `cells` increased by
\* exactly 1 and nothing else changed, in range or in the padding of the store.
IncrementedExactly(before, after, cells) ==
    /\ \A q \in Cells(after) :
          Grid2D_get(after, q[1], q[2]) =
              Grid2D_get(before, q[1], q[2]) + (IF q \in cells THEN 1 ELSE 0)
    /\ DOMAIN after.data = DOMAIN before.data
    /\ \A i \in DOMAIN after.data :
          (\A q \in cells \cap Cells(after) : i # q[1] + q[2] * after.offset) =>
              after.data[i] = before.data[i]

\* The general statement of C5: a horizontal, vertical or 45-degree
\* incrementLine between in-range endpoints increases each cell of its path by
\* exactly 1 and leaves every other cell untouched.
LinePaintsPath ==
    (call.name = "incrementLine"
        /\ <<call.args[1], call.args[2]>> \in Cells(grid)
        /\ <<call.args[3], call.args[4]>> \in Cells(grid)
        /\ IsStraight(call.args[1], call.args[2], call.args[3], call.args[4])) =>
        /\ Path(call.args[1], call.args[2], call.args[3], call.args[4]) \subseteq Cells(grid)
        /\ IncrementedExactly(pre, grid,
                              Path(call.args[1], call.args[2], call.args[3], call.args[4]))

\* C5 as stated: the general statement, and incrementLine(0,0,0,3) on a
\* zero-filled 4x1 grid (whichever of the two is the width) increments cells
\* (0,0)..(3,0) each by 1 and touches no other cell.
C5_IncrementLineAsStated ==
    /\ LinePaintsPath
    /\ (call.name = "incrementLine" /\ call.args = <<0, 0, 0, 3>>
            /\ pre \in {Grid2D(4, 1, 0), Grid2D(1, 4, 0)}) =>
          /\ \A i \in 0..3 : Grid2D_get(grid, i, 0) = 1
          /\ IncrementedExactly(pre, grid, {<<i, 0>> : i \in 0..3})

\* C5 amended: the general statement, and incrementLine(0,0,3,0) on a
\* zero-filled grid of width 4 and height 1 increments cells (0,0)..(3,0) each
\* by 1 and touches no other cell.
C5_IncrementLine ==
    /\ LinePaintsPath
    /\ (call.name = "incrementLine" /\ call.args = <<0, 0, 3, 0>>
            /\ pre = Grid2D(1, 4, 0)) =>
          /\ \A i \in 0..3 : Grid2D_get(grid, i, 0) = 1
          /\ IncrementedExactly(pre, grid, {<<i, 0>> : i \in 0..3})

\* C5's case: a 45-degree line running right to left and downwards is painted
\* over a grid that an earlier call has already incremented.
C5_Witness ==
    /\ call.name = "incrementLine"
    /\ call.args = <<1, 0, 0, 1>>
    /\ steps = 2
    /\ Grid2D_get(grid, 1, 0) = 2
    /\ Grid2D_get(grid, 0, 1) = 1
    /\ Grid2D_get(grid, 0, 0) = 0

----------------------------------------------------------------------------
(* SpecSearch: the source's layout (stride = max(width, height)) and the   *)
(* layout with stride = width, driven by the same calls on in-range        *)
(* coordinates and asked the same queries.                                 *)

\* A Grid2D of exactly width*height cells laid out with stride = width.  Every
\* method reads the layout from the object's offset and size fields alone.
FlatGrid2D(height, width, fillValue) ==
    [height |-> height, width |-> width, offset |-> width, size |-> width * height,
     data |-> ArrayFill(width * height, fillValue)]

FlatGrid2D_parse(input) ==
    ParseFrom(FlatGrid2D(Len(input), Len(input[1]), Undefined), input, 0, 0)

InitSearch ==
    /\ \E s \in SmallShapes :
          \/ \E fillValue \in {Undefined, 0} :
                /\ grid = Grid2D(s[1], s[2], fillValue)
                /\ flat = FlatGrid2D(s[1], s[2], fillValue)
                /\ call = Void("new", <<s[1], s[2], fillValue>>)
          \/ /\ grid = Grid2D_parse(Labelled(s[1], s[2]))
             /\ flat = FlatGrid2D_parse(Labelled(s[1], s[2]))
             /\ call = Void("parse", <<s[1], s[2]>>)
    /\ cube = NoCube
    /\ written = <<>>
    /\ pre = grid
    /\ steps = 0

SetBoth ==
    \E p \in Cells(grid) :
        /\ steps < MaxCalls
        /\ grid' = Grid2D_set(grid, p[1], p[2], 1)
        /\ flat' = Grid2D_set(flat, p[1], p[2], 1)
        /\ call' = Void("set", <<p[1], p[2], 1>>)
        /\ pre' = grid
        /\ steps' = steps + 1
        /\ UNCHANGED <<cube, written>>

IncrementBoth ==
    \E p \in Cells(grid) :
        /\ steps < MaxCalls
        /\ grid' = Grid2D_increment(grid, p[1], p[2])
        /\ flat' = Grid2D_increment(flat, p[1], p[2])
        /\ call' = Void("increment", p)
        /\ pre' = grid
        /\ steps' = steps + 1
        /\ UNCHANGED <<cube, written>>

IncrementLineBoth ==
    \E p1 \in Cells(grid), p2 \in Cells(grid) :
        /\ steps < MaxCalls
        /\ IsStraight(p1[1], p1[2], p2[1], p2[2])
        /\ grid' = Grid2D_incrementLine(grid, p1[1], p1[2], p2[1], p2[2])
        /\ flat' = Grid2D_incrementLine(flat, p1[1], p1[2], p2[1], p2[2])
        /\ call' = Void("incrementLine", <<p1[1], p1[2], p2[1], p2[2]>>)
        /\ pre' = grid
        /\ steps' = steps + 1
        /\ UNCHANGED <<cube, written>>

\* The predicates asked: c === undefined, c === 0, c === 1, c >= 0.
Predicates == {{Undefined}, {0}, {1}, 0..(MaxSmallCells + MaxCalls)}

\* The record of a query: what it returned on grid and what it returned on flat.
Asked(name, args, res, ref) == [name |-> name, args |-> args, res |-> res, ref |-> ref]

AskGet ==
    \E p \in Coords(grid) :
        /\ call' = Asked("get", p, Grid2D_get(grid, p[1], p[2]), Grid2D_get(flat, p[1], p[2]))
        /\ pre' = grid
        /\ UNCHANGED <<grid, flat, cube, written, steps>>

AskFilter ==
    \E predicate \in Predicates :
        /\ call' = Asked("filter", <<predicate>>,
              Grid2D_filter(grid, predicate), Grid2D_filter(flat, predicate))
        /\ pre' = grid
        /\ UNCHANGED <<grid, flat, cube, written, steps>>

AskCount ==
    \E predicate \in Predicates :
        /\ call' = Asked("count", <<predicate>>,
              Grid2D_count(grid, predicate), Grid2D_count(flat, predicate))
        /\ pre' = grid
        /\ UNCHANGED <<grid, flat, cube, written, steps>>

AskFind ==
    \E predicate \in Predicates :
        /\ call' = Asked("find", <<predicate>>,
              Grid2D_find(grid, predicate), Grid2D_find(flat, predicate))
        /\ pre' = grid
        /\ UNCHANGED <<grid, flat, cube, written, steps>>

AskFindValue ==
    \E value \in {Undefined, 0, 1} :
        /\ call' = Asked("findValue", <<{value}>>,
              Grid2D_findValue(grid, value), Grid2D_findValue(flat, value))
        /\ pre' = grid
        /\ UNCHANGED <<grid, flat, cube, written, steps>>

AskFindAll ==
    \E predicate \in Predicates :
        /\ call' = Asked("findAll", <<predicate>>,
              Grid2D_findAll(grid, predicate), Grid2D_findAll(flat, predicate))
        /\ pre' = grid
        /\ UNCHANGED <<grid, flat, cube, written, steps>>

AskHorizontals ==
    /\ call' = Asked("horizontals", <<>>, Grid2D_horizontals(grid), Grid2D_horizontals(flat))
    /\ pre' = grid
    /\ UNCHANGED <<grid, flat, cube, written, steps>>

AskVerticals ==
    /\ call' = Asked("verticals", <<>>, Grid2D_verticals(grid), Grid2D_verticals(flat))
    /\ pre' = grid
    /\ UNCHANGED <<grid, flat, cube, written, steps>>

NextSearch ==
    \/ SetBoth \/ IncrementBoth \/ IncrementLineBoth
    \/ AskGet \/ AskFilter \/ AskCount \/ AskFind \/ AskFindValue \/ AskFindAll
    \/ AskHorizontals \/ AskVerticals

SpecSearch == InitSearch /\ [][NextSearch]_vars

Queries ==
    {"get", "filter", "count", "find", "findValue", "findAll", "horizontals", "verticals"}

\* The values of the in-range cells in row-major order.
RowMajorValues(g) ==
    [k \in 1..(g.width * g.height) |->
        Grid2D_get(g, (k - 1) % g.width, (k - 1) \div g.width)]

\* Padding cells of the store contribute no value to filter or count and no
\* coordinate to find or findAll.
PaddingNeverObserved ==
    LET Accepted(v) == v \in call.args[1]
        matching == SelectSeq(RowMajorValues(grid), Accepted)
    IN  /\ call.name = "filter" => call.res = matching
        /\ call.name = "count" => call.res = Len(matching)
        /\ call.name = "findAll" =>
              \A k \in 1..Len(call.res) : call.res[k] \in Cells(grid)
        /\ (call.name \in {"find", "findValue"} /\ call.res \notin Cells(grid)) =>
              \A i \in DOMAIN grid.data : ~Accepted(grid.data[i])

\* C6: the two layouts, driven by the same calls, return identical results for
\* every documented query; equivalently, only the width x height sub-rectangle
\* of the over-allocated store is ever observable.
C6_StrideIndependence ==
    /\ call.name \in Queries => call.res = call.ref
    /\ PaddingNeverObserved

\* What does hold of the two layouts: the queries addressed by coordinate agree.
CoordinateQueriesAgree ==
    call.name \in {"get", "horizontals", "verticals"} => call.res = call.ref

\* What does hold of the two layouts: on a square grid, C6.
SquareQueriesAgree ==
    grid.width = grid.height => C6_StrideIndependence

\* q comes before p in row-major order.
Earlier(q, p) == q[2] < p[2] \/ (q[2] = p[2] /\ q[1] < p[1])

\* C8: when some in-range cell satisfies the predicate, find (and findValue, the
\* predicate being c === v) returns the in-range match that no in-range match
\* precedes in row-major order; when none does, it returns a point that is not
\* an in-range coordinate.
C8_FindFirstMatch ==
    call.name \in {"find", "findValue"} =>
        LET matches == {p \in Cells(grid) : Grid2D_get(grid, p[1], p[2]) \in call.args[1]}
        IN  IF matches # {}
            THEN /\ call.res \in matches
                 /\ \A q \in matches : ~Earlier(q, call.res)
            ELSE call.res \notin Cells(grid)

\* What does hold of find: on a square grid, C8.
FindFirstMatchSquare ==
    grid.width = grid.height => C8_FindFirstMatch

\* What does hold of find: with no match at all in the store the result is
\* <<stride - 1, -1>>, which is not in range.
FindNothing ==
    (call.name \in {"find", "findValue"}
        /\ \A i \in DOMAIN grid.data : grid.data[i] \notin call.args[1]) =>
        call.res = <<grid.offset - 1, 0 - 1>>

----------------------------------------------------------------------------
(* Spec3D: a zero-filled Grid3D driven by set, increment and setCube on    *)
(* in-range coordinates, as its caller must ensure.                        *)

\* <<height, width, depth>> of the Grid3D objects constructed.
Shapes3 ==
    {s \in (1..MaxCells3) \X (1..MaxCells3) \X (1..MaxCells3) :
        s[1] * s[2] * s[3] <= MaxCells3}

\* The in-range coordinates <<x, y, z>> of a Grid3D.
Cells3(c) == (0..(c.width - 1)) \X (0..(c.height - 1)) \X (0..(c.depth - 1))

Init3D ==
    \E s \in Shapes3 :
        /\ cube = Grid3D(s[1], s[2], s[3], 0)
        /\ grid = NoGrid
        /\ flat = NoGrid
        /\ written = <<>>
        /\ call = Void("new", <<s[1], s[2], s[3], 0>>)
        /\ pre = cube
        /\ steps = 0

CubeSet ==
    \E p \in Cells3(cube), value \in {1, 2} :
        /\ steps < MaxCalls3
        /\ cube' = Grid3D_set(cube, p[1], p[2], p[3], value)
        /\ call' = Void("set", <<p[1], p[2], p[3], value>>)
        /\ pre' = cube
        /\ steps' = steps + 1
        /\ UNCHANGED <<grid, flat, written>>

CubeIncrement ==
    \E p \in Cells3(cube) :
        /\ steps < MaxCalls3
        /\ cube' = Grid3D_increment(cube, p[1], p[2], p[3])
        /\ call' = Void("increment", p)
        /\ pre' = cube
        /\ steps' = steps + 1
        /\ UNCHANGED <<grid, flat, written>>

CubeSetCube ==
    \E p1 \in Cells3(cube), p2 \in Cells3(cube) :
        /\ steps < MaxCalls3
        /\ p1[1] <= p2[1] /\ p1[2] <= p2[2] /\ p1[3] <= p2[3]
        /\ cube' = Grid3D_setCube(cube, p1[1], p1[2], p1[3], p2[1], p2[2], p2[3], 5)
        /\ call' = Void("setCube", <<p1[1], p1[2], p1[3], p2[1], p2[2], p2[3], 5>>)
        /\ pre' = cube
        /\ steps' = steps + 1
        /\ UNCHANGED <<grid, flat, written>>

CubeGet ==
    \E p \in Cells3(cube) :
        /\ call' = Called("get", p, Grid3D_get(cube, p[1], p[2], p[3]))
        /\ pre' = cube
        /\ UNCHANGED <<grid, flat, cube, written, steps>>

CubeCount ==
    \E value \in {0, 1, 5} :
        /\ call' = Called("count", <<{value}>>, Grid3D_count(cube, {value}))
        /\ pre' = cube
        /\ UNCHANGED <<grid, flat, cube, written, steps>>

Next3D == CubeSet \/ CubeIncrement \/ CubeSetCube \/ CubeGet \/ CubeCount

Spec3D == Init3D /\ [][Next3D]_vars

\* Object `after` reads as object `before` at every in-range coordinate but
\* those of `cells`.
SameOutside(before, after, cells) ==
    \A q \in Cells3(after) \ cells :
        Grid3D_get(after, q[1], q[2], q[3]) = Grid3D_get(before, q[1], q[2], q[3])

\* C7: after setCube(x1,y1,z1,x2,y2,z2,v) with in-range ascending bounds on a
\* grid holding no v, get is v at every cell inside the cuboid, every in-range
\* cell outside it keeps its value, and count(c => c === v) is
\* (x2-x1+1)*(y2-y1+1)*(z2-z1+1).
C7_SetCubeFillsCuboid ==
    (call.name = "setCube"
        /\ \A i \in DOMAIN pre.data : pre.data[i] # call.args[7]) =>
        LET inside == (call.args[1]..call.args[4]) \X (call.args[2]..call.args[5])
                        \X (call.args[3]..call.args[6])
        IN  /\ \A q \in inside : Grid3D_get(cube, q[1], q[2], q[3]) = call.args[7]
            /\ SameOutside(pre, cube, inside)
            /\ Grid3D_count(cube, {call.args[7]}) =
                  (call.args[4] - call.args[1] + 1) * (call.args[5] - call.args[2] + 1)
                      * (call.args[6] - call.args[3] + 1)

\* What does hold of setCube: C7 on grids whose width equals their height.
SetCubeSquare ==
    cube.width = cube.height => C7_SetCubeFillsCuboid

\* C9: after increment(x, y, z) at an in-range coordinate, get(x, y, z) is
\* exactly one greater than before and get at every other in-range coordinate
\* is unchanged.
C9_IncrementAddressedCell ==
    call.name = "increment" =>
        /\ Grid3D_get(cube, call.args[1], call.args[2], call.args[3]) =
              Grid3D_get(pre, call.args[1], call.args[2], call.args[3]) + 1
        /\ SameOutside(pre, cube, {call.args})

\* What does hold of increment: C9 for the calls with x = 0 and y = 0, on grids
\* whose width equals their height.
IncrementOnZAxis ==
    (call.name = "increment" /\ call.args[1] = 0 /\ call.args[2] = 0
        /\ cube.width = cube.height) => C9_IncrementAddressedCell

\* C10: the index x + y*height + z*(height*width) of every in-range coordinate
\* lies in [0, width*height*depth), distinct in-range coordinates get distinct
\* indices, a set at an in-range coordinate is read back by get there and
\* changes get at no other in-range coordinate, and the backing store keeps
\* exactly width*height*depth cells.
C10_AddressingBijective ==
    LET Index(p) == p[1] + p[2] * cube.height + p[3] * (cube.height * cube.width)
    IN  /\ \A p \in Cells3(cube) :
              0 <= Index(p) /\ Index(p) < cube.width * cube.height * cube.depth
        /\ \A p \in Cells3(cube), q \in Cells3(cube) : p # q => Index(p) # Index(q)
        /\ call.name = "set" =>
              /\ Grid3D_get(cube, call.args[1], call.args[2], call.args[3]) = call.args[4]
              /\ SameOutside(pre, cube, {<<call.args[1], call.args[2], call.args[3]>>})
        /\ ArrayLength(cube.data) = cube.width * cube.height * cube.depth

\* What does hold of the addressing: C10 on grids whose width equals their
\* height.
AddressingSquare ==
    cube.width = cube.height => C10_AddressingBijective

============================================================================
